---- MODULE Spec2Model ----
(***************************************************************************)
(* readlock: Shared / SharedReadLock / WeakReadLock over one backing cell  *)
(* Arc<RwLock<T>>.  The model follows one backing cell: the two counters   *)
(* of the Arc, the state of the RwLock, the stored value, the handles that *)
(* exist for the cell and the position of every thread (or task) inside    *)
(* the operation it is running.                                            *)
(*                                                                         *)
(* Handles of one kind are interchangeable, so the model counts them.  A   *)
(* handle that was moved into a running call (try_upgrade(self), ...) is   *)
(* held by the thread running the call and is not in the pool any more.    *)
(***************************************************************************)
EXTENDS Integers, FiniteSets, Sequences, TLC

\* ------------------------------------------------------------------ bounds
NThreads == 2
MaxStrong == 3
MaxWeak == 2
MaxVal == 1

Threads == 1..NThreads
Values == 0..MaxVal

\* The four builds of the crate: readlock, readlock::lite, readlock-tokio,
\* readlock-tokio::lite.
Backends == {"std", "std_lite", "tokio", "tokio_lite"}

VARIABLES
    backend,    \* which build of the crate is in use
    strong,     \* Arc strong count of the cell
    weak,       \* Arc weak count of the cell (as Arc::weak_count reports it)
    value,      \* <<v>> while the inner value exists, <<>> once it is gone
    readers,    \* read holds on the RwLock
    writer,     \* TRUE while the RwLock is write-held
    nShared,    \* Shared handles
    nRead,      \* SharedReadLock handles not moved into a call or a guard
    nWeak,      \* WeakReadLock handles
    nRaw,       \* raw Arc<RwLock<T>> handles not moved into a call
    nRawWeak,   \* raw Weak<RwLock<T>> handles
    rdBorrowed, \* SharedReadLock handles borrowed by a read guard or a pending lock
    pc,         \* per thread: where it is inside an operation
    last,       \* the operation that made the last step and what it returned
    hist,       \* how far the cell is along one of the chains below, since Shared::new
    poisoned,   \* TRUE once a std RwLock was write-held by a thread that panicked
    test        \* locals of the two parties of the test parallel_read_write

vars == <<backend, strong, weak, value, readers, writer, nShared, nRead, nWeak,
          nRaw, nRawWeak, rdBorrowed, pc, last, hist, poisoned, test>>

\* What the handle operations never change, a panicking guard holder and the
\* steps of the test aside.
env == <<backend, poisoned, test>>

cell == <<strong, weak, value>>
lockst == <<readers, writer>>
handles == <<nShared, nRead, nWeak, nRaw, nRawWeak, rdBorrowed>>

\* ------------------------------------------------------------------ helpers
IsLite == backend \in {"std_lite", "tokio_lite"}
IsTokio == backend \in {"tokio", "tokio_lite"}

Ret(op, res) == [op |-> op, res |-> res, val |-> <<>>]

\* hist follows the cell along the chains
\*   new -> into_inner -> try_from_inner            (new_inner, _tfi, _back)
\*   new -> get_read_lock -> try_upgrade            (new_grl, _tu, _back)
\*   new -> get_read_lock -> drop(Shared) -> try_upgrade (new_grl_drop, _tu, _back)
\* and remembers the value given to Shared::new; any other step leaves the chain.
NoChain == [at |-> "other", v |-> <<>>]
Chain(at, v) == [at |-> at, v |-> v]
Follow(from, to) == IF hist.at = from THEN Chain(to, hist.v) ELSE NoChain

Idle(t) == pc[t] = "idle"
Goto(t, l) == pc' = [pc EXCEPT ![t] = l]
At(l) == {t \in Threads : pc[t] = l}

\* A thread inside Shared::lock, or holding its write guard, borrows the
\* Shared mutably: nothing else can use the handle meanwhile.
SharedFree == nShared >= 1 /\ \A t \in Threads : pc[t] \notin {"w_wait", "w_held"}

\* A thread inside Shared::get / try_get, or holding the reference it returned,
\* borrows the Shared: the handle cannot be moved, dropped or locked meanwhile.
RefBorrowers == {t \in Threads : pc[t] \in {"g_held", "g_ref"}}
SharedUnborrowed == SharedFree /\ RefBorrowers = {}

\* The locals of the test while no test runs.
NoTest == [phase |-> "off", round |-> 0, tmp |-> 0, reader |-> "off", seen |-> 0]

\* Threads whose pending lock or read guard borrows a SharedReadLock.
RdBorrowers == {t \in Threads : pc[t] \in {"r_wait", "r_held"}}

\* SharedReadLock handles that can be moved or dropped.
RdFree == nRead - rdBorrowed

\* ------------------------------------------------------------------ the Arc
\* Mutant: an Arc whose value lives on while weak references are outstanding.
Mut_drop_keeps_value_for_weak ==
    /\ strong' = strong - 1
    /\ value' = IF strong = 1 /\ weak = 0 THEN <<>> ELSE value
    /\ weak' = weak

\* Arc::drop of a strong reference: the value is destroyed with the last one.
ArcDropStrong ==
    /\ strong' = strong - 1
    /\ value' = IF strong = 1 THEN <<>> ELSE value
    /\ weak' = weak

\* Arc::clone
ArcClone ==
    /\ strong < MaxStrong
    /\ strong' = strong + 1
    /\ UNCHANGED <<weak, value>>

\* ------------------------------------------------------------------ Init
Init ==
    /\ backend \in Backends
    /\ strong = 1
    /\ weak = 0
    /\ value \in {<<v>> : v \in Values}
    /\ readers = 0
    /\ writer = FALSE
    /\ nShared = 1
    /\ nRead = 0
    /\ nWeak = 0
    /\ nRaw = 0
    /\ nRawWeak = 0
    /\ rdBorrowed = 0
    /\ pc = [t \in Threads |-> "idle"]
    /\ last = Ret("new", "Ok")
    /\ hist = Chain("new", value)
    /\ poisoned = FALSE
    /\ test = NoTest

\* ------------------------------------------------------------------ Shared
\* Shared::new on a fresh cell, once the previous one is deallocated.
Shared_new(t, v) ==
    /\ \A u \in Threads : Idle(u)
    /\ strong = 0 /\ weak = 0
    /\ strong' = 1
    /\ value' = <<v>>
    /\ nShared' = 1
    /\ poisoned' = FALSE
    /\ last' = Ret("new", "Ok")
    /\ hist' = Chain("new", <<v>>)
    /\ UNCHANGED <<backend, test, weak, readers, writer, nRead, nWeak, nRaw, nRawWeak,
                   rdBorrowed, pc>>

\* Mutant: unwrap that also refuses while weak references are outstanding.
Mut_unwrap_refuses_weak(t) ==
    /\ Idle(t) /\ SharedUnborrowed
    /\ IF strong = 1 /\ weak = 0
       THEN /\ strong' = 0
            /\ value' = <<>>
            /\ nShared' = nShared - 1
            /\ last' = IF poisoned THEN Ret("unwrap", "Panic")
                       ELSE [op |-> "unwrap", res |-> "Ok", val |-> value]
       ELSE /\ UNCHANGED <<strong, value, nShared>>
            /\ last' = Ret("unwrap", "Err")
    /\ hist' = NoChain
    /\ UNCHANGED <<env, weak, readers, writer, nRead, nWeak, nRaw, nRawWeak,
                   rdBorrowed, pc>>

\* Mutant: unwrap that takes the value although one other strong reference
\* is left.
Mut_unwrap_beside_one_strong(t) ==
    /\ Idle(t) /\ SharedUnborrowed
    /\ IF strong \in {1, 2}
       THEN /\ strong' = strong - 1
            /\ value' = <<>>
            /\ nShared' = nShared - 1
            /\ last' = IF poisoned THEN Ret("unwrap", "Panic")
                       ELSE [op |-> "unwrap", res |-> "Ok", val |-> value]
       ELSE /\ UNCHANGED <<strong, value, nShared>>
            /\ last' = Ret("unwrap", "Err")
    /\ hist' = NoChain
    /\ UNCHANGED <<env, weak, readers, writer, nRead, nWeak, nRaw, nRawWeak,
                   rdBorrowed, pc>>

\* Mutant: unwrap that takes the value out of a poisoned lock.
Mut_unwrap_ignores_poison(t) ==
    /\ Idle(t) /\ SharedUnborrowed
    /\ IF strong = 1
       THEN /\ strong' = 0
            /\ value' = <<>>
            /\ nShared' = nShared - 1
            /\ last' = [op |-> "unwrap", res |-> "Ok", val |-> value]
       ELSE /\ UNCHANGED <<strong, value, nShared>>
            /\ last' = Ret("unwrap", "Err")
    /\ hist' = NoChain
    /\ UNCHANGED <<env, weak, readers, writer, nRead, nWeak, nRaw, nRawWeak,
                   rdBorrowed, pc>>

\* Shared::unwrap: Arc::try_unwrap is one atomic compare-and-swap of the
\* strong count from 1 to 0.  In the std builds RwLock::into_inner returns Err
\* for a poisoned lock and `.unwrap()` panics on it, the value being dropped
\* with the error; the tokio lock is never poisoned.
Shared_unwrap(t) ==
    /\ Idle(t) /\ SharedUnborrowed
    /\ IF strong = 1
       THEN /\ strong' = 0
            /\ value' = <<>>
            /\ nShared' = nShared - 1
            /\ last' = IF poisoned THEN Ret("unwrap", "Panic")
                       ELSE [op |-> "unwrap", res |-> "Ok", val |-> value]
       ELSE /\ UNCHANGED <<strong, value, nShared>>
            /\ last' = Ret("unwrap", "Err")
    /\ hist' = NoChain
    /\ UNCHANGED <<env, weak, readers, writer, nRead, nWeak, nRaw, nRawWeak,
                   rdBorrowed, pc>>

\* Mutant: get_read_lock that hands out a handle without cloning the Arc.
Mut_get_read_lock_without_clone(t) ==
    /\ Idle(t) /\ SharedFree
    /\ nRead' = nRead + 1
    /\ last' = Ret("get_read_lock", "Ok")
    /\ hist' = Follow("new", "new_grl")
    /\ UNCHANGED <<env, cell, readers, writer, nShared, nWeak, nRaw, nRawWeak,
                   rdBorrowed, pc>>

\* Shared::get_read_lock
Shared_get_read_lock(t) ==
    /\ Idle(t) /\ SharedFree
    /\ ArcClone
    /\ nRead' = nRead + 1
    /\ last' = Ret("get_read_lock", "Ok")
    /\ hist' = Follow("new", "new_grl")
    /\ UNCHANGED <<env, readers, writer, nShared, nWeak, nRaw, nRawWeak,
                   rdBorrowed, pc>>

\* drop(Shared)
Shared_drop(t) ==
    /\ Idle(t) /\ SharedUnborrowed
    /\ ArcDropStrong
    /\ nShared' = nShared - 1
    /\ last' = Ret("drop_shared", "Ok")
    /\ hist' = Follow("new_grl", "new_grl_drop")
    /\ UNCHANGED <<env, readers, writer, nRead, nWeak, nRaw, nRawWeak,
                   rdBorrowed, pc>>

\* Shared::get and Shared::try_get, the acquisition.  The std builds call
\* RwLock::read, which returns once the lock is not write-held; the tokio
\* builds call RwLock::try_read().expect(..), which panics when the lock is
\* write-held.  The call borrows the Shared.
Shared_get(t) ==
    /\ Idle(t) /\ SharedFree
    /\ ~IsTokio => ~writer
    /\ IF ~writer
       THEN /\ readers' = readers + 1
            /\ Goto(t, "g_held")
            /\ last' = Ret("get", "Pending")
       ELSE /\ UNCHANGED <<readers, pc>>
            /\ last' = Ret("get", "Panic")
    /\ hist' = NoChain
    /\ UNCHANGED <<env, cell, writer, handles>>

\* Mutant: a get that keeps the read hold for the reference it returns.
Mut_get_keeps_read_hold(t) ==
    /\ pc[t] = "g_held"
    /\ readers' = readers
    /\ IF poisoned
       THEN /\ Goto(t, "idle")
            /\ last' = Ret("get", "Panic")
       ELSE /\ Goto(t, "g_ref")
            /\ last' = [op |-> "get", res |-> "Ok", val |-> value]
    /\ hist' = NoChain
    /\ UNCHANGED <<env, cell, writer, handles>>

\* Shared::get returns: readguard_into_ref turns the guard into a reference
\* that outlives it, the guard is dropped at the end of try_get, and
\* `.unwrap()` panics on the Err of a poisoned lock.
Shared_get_return(t) ==
    /\ pc[t] = "g_held"
    /\ readers' = readers - 1
    /\ IF poisoned
       THEN /\ Goto(t, "idle")
            /\ last' = Ret("get", "Panic")
       ELSE /\ Goto(t, "g_ref")
            /\ last' = [op |-> "get", res |-> "Ok", val |-> value]
    /\ hist' = NoChain
    /\ UNCHANGED <<env, cell, writer, handles>>

\* Mutant: a try_get that panics on a poisoned lock as get does.
Mut_try_get_unwraps(t) ==
    /\ ~IsTokio
    /\ pc[t] = "g_held"
    /\ readers' = readers - 1
    /\ IF poisoned
       THEN /\ Goto(t, "idle")
            /\ last' = Ret("try_get", "Panic")
       ELSE /\ Goto(t, "g_ref")
            /\ last' = [op |-> "try_get", res |-> "Ok", val |-> value]
    /\ hist' = NoChain
    /\ UNCHANGED <<env, cell, writer, handles>>

\* Mutant: a try_get whose Err keeps the read guard with the reference.
Mut_try_get_err_keeps_guard(t) ==
    /\ ~IsTokio
    /\ pc[t] = "g_held"
    /\ readers' = IF poisoned THEN readers ELSE readers - 1
    /\ Goto(t, "g_ref")
    /\ last' = [op |-> "try_get", res |-> IF poisoned THEN "Err" ELSE "Ok",
                val |-> value]
    /\ hist' = NoChain
    /\ UNCHANGED <<env, cell, writer, handles>>

\* Shared::try_get returns (std builds): Ok with the reference, or Err with
\* the reference inside when the lock is poisoned.
Shared_try_get_return(t) ==
    /\ ~IsTokio
    /\ pc[t] = "g_held"
    /\ readers' = readers - 1
    /\ Goto(t, "g_ref")
    /\ last' = [op |-> "try_get", res |-> IF poisoned THEN "Err" ELSE "Ok",
                val |-> value]
    /\ hist' = NoChain
    /\ UNCHANGED <<env, cell, writer, handles>>

\* The reference returned by get / try_get goes out of use: the borrow of the
\* Shared ends.
Ref_drop(t) ==
    /\ pc[t] = "g_ref"
    /\ Goto(t, "idle")
    /\ last' = Ret("drop_ref", "Ok")
    /\ hist' = NoChain
    /\ UNCHANGED <<env, cell, lockst, handles>>

\* Shared::lock: the call borrows the Shared mutably and waits in
\* RwLock::write until the lock is granted.
Shared_lock(t) ==
    /\ Idle(t) /\ SharedUnborrowed
    /\ Goto(t, "w_wait")
    /\ last' = Ret("lock", "Pending")
    /\ hist' = NoChain
    /\ UNCHANGED <<env, cell, lockst, handles>>

\* Mutant: a write acquisition that does not wait for the readers.
Mut_write_ignores_readers(t) ==
    /\ pc[t] = "w_wait"
    /\ ~writer
    /\ IF poisoned
       THEN /\ writer' = writer
            /\ Goto(t, "idle")
            /\ last' = Ret("lock", "Panic")
       ELSE /\ writer' = TRUE
            /\ Goto(t, "w_held")
            /\ last' = Ret("lock", "Ok")
    /\ hist' = NoChain
    /\ UNCHANGED <<env, cell, readers, handles>>

\* RwLock::write returns: no reader and no writer holds the lock.  On a
\* poisoned lock it returns Err with the guard inside; `.unwrap()` panics on
\* it and the guard is dropped with the error, so the lock is free again.
RwLock_write(t) ==
    /\ pc[t] = "w_wait"
    /\ ~writer /\ readers = 0
    /\ IF poisoned
       THEN /\ writer' = writer
            /\ Goto(t, "idle")
            /\ last' = Ret("lock", "Panic")
       ELSE /\ writer' = TRUE
            /\ Goto(t, "w_held")
            /\ last' = Ret("lock", "Ok")
    /\ hist' = NoChain
    /\ UNCHANGED <<env, cell, readers, handles>>

\* DerefMut of SharedWriteGuard: the holder stores a value.
SharedWriteGuard_deref_mut(t, v) ==
    /\ pc[t] = "w_held"
    /\ value' = <<v>>
    /\ last' = Ret("write", "Ok")
    /\ hist' = NoChain
    /\ UNCHANGED <<env, strong, weak, lockst, handles, pc>>

\* Mutant: a write guard whose drop leaves the lock write-held.
Mut_write_guard_drop_keeps_lock(t) ==
    /\ pc[t] = "w_held"
    /\ writer' = writer
    /\ Goto(t, "idle")
    /\ last' = Ret("drop_write_guard", "Ok")
    /\ hist' = NoChain
    /\ UNCHANGED <<env, cell, readers, handles>>

\* drop(SharedWriteGuard)
SharedWriteGuard_drop(t) ==
    /\ pc[t] = "w_held"
    /\ writer' = FALSE
    /\ Goto(t, "idle")
    /\ last' = Ret("drop_write_guard", "Ok")
    /\ hist' = NoChain
    /\ UNCHANGED <<env, cell, readers, handles>>

\* The holder of the write guard panics: the guard is dropped while the thread
\* unwinds, which poisons a std RwLock; the tokio lock has no poisoning.
SharedWriteGuard_panic(t) ==
    /\ pc[t] = "w_held"
    /\ writer' = FALSE
    /\ poisoned' = (poisoned \/ ~IsTokio)
    /\ Goto(t, "idle")
    /\ last' = Ret("panic_write_guard", "Ok")
    /\ hist' = NoChain
    /\ UNCHANGED <<backend, test, cell, readers, handles>>

\* mem::forget of the write guard: the borrow of the Shared ends, the guard is
\* never dropped and the lock stays write-held.
SharedWriteGuard_forget(t) ==
    /\ pc[t] = "w_held"
    /\ Goto(t, "w_forgot")
    /\ last' = Ret("forget_write_guard", "Ok")
    /\ hist' = NoChain
    /\ UNCHANGED <<env, cell, lockst, handles>>

\* Shared::into_inner
Shared_into_inner(t) ==
    /\ ~IsLite
    /\ Idle(t) /\ SharedUnborrowed
    /\ nShared' = nShared - 1
    /\ nRaw' = nRaw + 1
    /\ last' = Ret("into_inner", "Ok")
    /\ hist' = Follow("new", "new_inner")
    /\ UNCHANGED <<env, cell, lockst, nRead, nWeak, nRawWeak, rdBorrowed, pc>>

\* Shared::try_from_inner, first half of the condition: Arc::strong_count == 1.
\* The Arc is moved into the call; `&&` stops at a failed first half.
Shared_try_from_inner_strong(t) ==
    /\ ~IsLite
    /\ Idle(t) /\ nRaw >= 1
    /\ IF strong = 1
       THEN /\ nRaw' = nRaw - 1
            /\ Goto(t, "tfi_w")
            /\ last' = Ret("try_from_inner", "Pending")
            /\ hist' = Follow("new_inner", "new_inner_tfi")
       ELSE /\ UNCHANGED <<nRaw, pc>>
            /\ last' = Ret("try_from_inner", "Err")
            /\ hist' = Follow("new_inner", "new_inner_back")
    /\ UNCHANGED <<env, cell, lockst, nShared, nRead, nWeak, nRawWeak, rdBorrowed>>

\* Mutant: try_from_inner that compares the weak count with 1.
Mut_try_from_inner_weak_is_one(t) ==
    /\ pc[t] = "tfi_w"
    /\ IF weak = 1
       THEN /\ nShared' = nShared + 1
            /\ nRaw' = nRaw
            /\ last' = Ret("try_from_inner", "Ok")
       ELSE /\ nRaw' = nRaw + 1
            /\ nShared' = nShared
            /\ last' = Ret("try_from_inner", "Err")
    /\ Goto(t, "idle")
    /\ hist' = Follow("new_inner_tfi", "new_inner_back")
    /\ UNCHANGED <<env, cell, lockst, nRead, nWeak, nRawWeak, rdBorrowed>>

\* Shared::try_from_inner, second half: Arc::weak_count == 0.
Shared_try_from_inner_weak(t) ==
    /\ pc[t] = "tfi_w"
    /\ IF weak = 0
       THEN /\ nShared' = nShared + 1
            /\ nRaw' = nRaw
            /\ last' = Ret("try_from_inner", "Ok")
       ELSE /\ nRaw' = nRaw + 1
            /\ nShared' = nShared
            /\ last' = Ret("try_from_inner", "Err")
    /\ Goto(t, "idle")
    /\ hist' = Follow("new_inner_tfi", "new_inner_back")
    /\ UNCHANGED <<env, cell, lockst, nRead, nWeak, nRawWeak, rdBorrowed>>

\* ------------------------------------------------------------ SharedReadLock
\* SharedReadLock::lock: the call borrows the handle and waits in RwLock::read.
\* The handle may be one another guard already borrows.
SharedReadLock_lock(t) ==
    /\ Idle(t) /\ nRead >= 1
    /\ \/ RdFree >= 1 /\ rdBorrowed' = rdBorrowed + 1
       \/ rdBorrowed >= 1 /\ rdBorrowed' = rdBorrowed
    /\ Goto(t, "r_wait")
    /\ last' = Ret("read_lock", "Pending")
    /\ hist' = NoChain
    /\ UNCHANGED <<env, cell, lockst, nShared, nRead, nWeak, nRaw, nRawWeak>>

\* The borrow of the handle ends with the guard; the handle is free again
\* when this was its last borrower.
EndRdBorrow(t) ==
    LET left == Cardinality(RdBorrowers \ {t}) IN
    /\ rdBorrowed' \in {rdBorrowed, rdBorrowed - 1}
    /\ rdBorrowed' <= left
    /\ left > 0 => rdBorrowed' >= 1

\* Mutant: a read acquisition that does not wait for the writer.
Mut_read_ignores_writer(t) ==
    /\ pc[t] = "r_wait"
    /\ IF poisoned
       THEN /\ readers' = readers
            /\ EndRdBorrow(t)
            /\ Goto(t, "idle")
            /\ last' = Ret("read_lock", "Panic")
       ELSE /\ readers' = readers + 1
            /\ rdBorrowed' = rdBorrowed
            /\ Goto(t, "r_held")
            /\ last' = Ret("read_lock", "Ok")
    /\ hist' = NoChain
    /\ UNCHANGED <<env, cell, writer, nShared, nRead, nWeak, nRaw, nRawWeak>>

\* Mutant: a read acquisition that hands out the guard of a poisoned lock.
Mut_read_ignores_poison(t) ==
    /\ pc[t] = "r_wait"
    /\ ~writer
    /\ readers' = readers + 1
    /\ rdBorrowed' = rdBorrowed
    /\ Goto(t, "r_held")
    /\ last' = Ret("read_lock", "Ok")
    /\ hist' = NoChain
    /\ UNCHANGED <<env, cell, writer, nShared, nRead, nWeak, nRaw, nRawWeak>>

\* RwLock::read returns: no writer holds the lock.  Whether a waiting writer
\* keeps new readers out is left to the lock.  On a poisoned lock `.unwrap()`
\* panics on the Err that carries the guard, which is dropped with it.
RwLock_read(t) ==
    /\ pc[t] = "r_wait"
    /\ ~writer
    /\ IF poisoned
       THEN /\ readers' = readers
            /\ EndRdBorrow(t)
            /\ Goto(t, "idle")
            /\ last' = Ret("read_lock", "Panic")
       ELSE /\ readers' = readers + 1
            /\ rdBorrowed' = rdBorrowed
            /\ Goto(t, "r_held")
            /\ last' = Ret("read_lock", "Ok")
    /\ hist' = NoChain
    /\ UNCHANGED <<env, cell, writer, nShared, nRead, nWeak, nRaw, nRawWeak>>

\* Mutant: a read guard whose drop leaves its read hold on the lock.
Mut_read_guard_drop_keeps_hold(t) ==
    /\ pc[t] = "r_held"
    /\ readers' = readers
    /\ EndRdBorrow(t)
    /\ Goto(t, "idle")
    /\ last' = Ret("drop_read_guard", "Ok")
    /\ hist' = NoChain
    /\ UNCHANGED <<env, cell, writer, nShared, nRead, nWeak, nRaw, nRawWeak>>

\* drop(SharedReadGuard)
SharedReadGuard_drop(t) ==
    /\ pc[t] = "r_held"
    /\ readers' = readers - 1
    /\ EndRdBorrow(t)
    /\ Goto(t, "idle")
    /\ last' = Ret("drop_read_guard", "Ok")
    /\ hist' = NoChain
    /\ UNCHANGED <<env, cell, writer, nShared, nRead, nWeak, nRaw, nRawWeak>>

\* Mutant: try_lock that hands out a read guard whatever the lock state.
Mut_try_lock_ignores_writer(t) ==
    /\ backend = "tokio_lite"
    /\ Idle(t) /\ nRead >= 1
    /\ readers' = readers + 1
    /\ \/ RdFree >= 1 /\ rdBorrowed' = rdBorrowed + 1
       \/ rdBorrowed >= 1 /\ rdBorrowed' = rdBorrowed
    /\ Goto(t, "r_held")
    /\ last' = Ret("try_lock", "Some")
    /\ hist' = NoChain
    /\ UNCHANGED <<env, cell, writer, nShared, nRead, nWeak, nRaw, nRawWeak>>

\* SharedReadLock::try_lock (readlock-tokio::lite): RwLock::try_read, which
\* fails while the lock is write-held and may fail while a writer is queued.
SharedReadLock_try_lock(t) ==
    /\ backend = "tokio_lite"
    /\ Idle(t) /\ nRead >= 1
    /\ \/ /\ ~writer
          /\ readers' = readers + 1
          /\ \/ RdFree >= 1 /\ rdBorrowed' = rdBorrowed + 1
             \/ rdBorrowed >= 1 /\ rdBorrowed' = rdBorrowed
          /\ Goto(t, "r_held")
          /\ last' = Ret("try_lock", "Some")
       \/ /\ writer \/ At("w_wait") # {}
          /\ UNCHANGED <<readers, rdBorrowed, pc>>
          /\ last' = Ret("try_lock", "None")
    /\ hist' = NoChain
    /\ UNCHANGED <<env, cell, writer, nShared, nRead, nWeak, nRaw, nRawWeak>>

\* SharedReadLock::lock_owned (readlock-tokio): the handle is moved into the
\* call; the guard keeps its Arc.
SharedReadLock_lock_owned(t) ==
    /\ backend = "tokio"
    /\ Idle(t) /\ RdFree >= 1
    /\ nRead' = nRead - 1
    /\ Goto(t, "ro_wait")
    /\ last' = Ret("lock_owned", "Pending")
    /\ hist' = NoChain
    /\ UNCHANGED <<env, cell, lockst, nShared, nWeak, nRaw, nRawWeak, rdBorrowed>>

\* RwLock::read_owned returns.
RwLock_read_owned(t) ==
    /\ pc[t] = "ro_wait"
    /\ ~writer
    /\ readers' = readers + 1
    /\ Goto(t, "ro_held")
    /\ last' = Ret("lock_owned", "Ok")
    /\ hist' = NoChain
    /\ UNCHANGED <<env, cell, writer, handles>>

\* drop(OwnedSharedReadGuard), first the read hold ...
OwnedSharedReadGuard_drop(t) ==
    /\ pc[t] = "ro_held"
    /\ readers' = readers - 1
    /\ Goto(t, "ro_arc")
    /\ last' = Ret("drop_owned_guard", "Pending")
    /\ hist' = NoChain
    /\ UNCHANGED <<env, cell, writer, handles>>

\* ... then the Arc the guard owned.
OwnedSharedReadGuard_drop_arc(t) ==
    /\ pc[t] = "ro_arc"
    /\ ArcDropStrong
    /\ Goto(t, "idle")
    /\ last' = Ret("drop_owned_guard", "Ok")
    /\ hist' = NoChain
    /\ UNCHANGED <<env, lockst, handles>>

\* The futures returned by the async lock functions of readlock-tokio can be
\* dropped before they complete: the wait ends and what the future held is
\* released.
Shared_lock_cancel(t) ==
    /\ IsTokio
    /\ pc[t] = "w_wait"
    /\ Goto(t, "idle")
    /\ last' = Ret("lock", "Cancelled")
    /\ hist' = NoChain
    /\ UNCHANGED <<env, cell, lockst, handles>>

SharedReadLock_lock_cancel(t) ==
    /\ IsTokio
    /\ pc[t] = "r_wait"
    /\ EndRdBorrow(t)
    /\ Goto(t, "idle")
    /\ last' = Ret("read_lock", "Cancelled")
    /\ hist' = NoChain
    /\ UNCHANGED <<env, cell, lockst, nShared, nRead, nWeak, nRaw, nRawWeak>>

SharedReadLock_lock_owned_cancel(t) ==
    /\ IsTokio
    /\ pc[t] = "ro_wait"
    /\ ArcDropStrong
    /\ Goto(t, "idle")
    /\ last' = Ret("lock_owned", "Cancelled")
    /\ hist' = NoChain
    /\ UNCHANGED <<env, lockst, handles>>

\* SharedReadLock::downgrade
SharedReadLock_downgrade(t) ==
    /\ ~IsLite
    /\ Idle(t) /\ nRead >= 1
    /\ weak < MaxWeak
    /\ weak' = weak + 1
    /\ nWeak' = nWeak + 1
    /\ last' = Ret("downgrade", "Ok")
    /\ hist' = NoChain
    /\ UNCHANGED <<env, strong, value, lockst, nShared, nRead, nRaw, nRawWeak,
                   rdBorrowed, pc>>

\* Mutant: try_upgrade that checks the weak count only.
Mut_try_upgrade_skips_strong(t) ==
    /\ ~IsLite
    /\ Idle(t) /\ RdFree >= 1
    /\ nRead' = nRead - 1
    /\ Goto(t, "tu_w")
    /\ last' = Ret("try_upgrade", "Pending")
    /\ hist' = IF hist.at = "new_grl" THEN Follow("new_grl", "new_grl_tu")
               ELSE Follow("new_grl_drop", "new_grl_drop_tu")
    /\ UNCHANGED <<env, cell, lockst, nShared, nWeak, nRaw, nRawWeak, rdBorrowed>>

\* SharedReadLock::try_upgrade, first half of the condition: strong_count == 1.
SharedReadLock_try_upgrade_strong(t) ==
    /\ ~IsLite
    /\ Idle(t) /\ RdFree >= 1
    /\ IF strong = 1
       THEN /\ nRead' = nRead - 1
            /\ Goto(t, "tu_w")
            /\ last' = Ret("try_upgrade", "Pending")
            /\ hist' = IF hist.at = "new_grl" THEN Follow("new_grl", "new_grl_tu")
                       ELSE Follow("new_grl_drop", "new_grl_drop_tu")
       ELSE /\ UNCHANGED <<nRead, pc>>
            /\ last' = Ret("try_upgrade", "Err")
            /\ hist' = IF hist.at = "new_grl" THEN Follow("new_grl", "new_grl_back")
                       ELSE Follow("new_grl_drop", "new_grl_drop_back")
    /\ UNCHANGED <<env, cell, lockst, nShared, nWeak, nRaw, nRawWeak, rdBorrowed>>

\* Mutant: try_upgrade whose Err path drops the handle instead of returning it.
Mut_try_upgrade_err_drops_handle(t) ==
    /\ pc[t] = "tu_w"
    /\ IF weak = 0
       THEN /\ nShared' = nShared + 1
            /\ UNCHANGED cell
            /\ last' = Ret("try_upgrade", "Ok")
       ELSE /\ ArcDropStrong
            /\ nShared' = nShared
            /\ last' = Ret("try_upgrade", "Err")
    /\ Goto(t, "idle")
    /\ hist' = NoChain
    /\ UNCHANGED <<env, lockst, nRead, nWeak, nRaw, nRawWeak, rdBorrowed>>

\* SharedReadLock::try_upgrade, second half: weak_count == 0.
SharedReadLock_try_upgrade_weak(t) ==
    /\ pc[t] = "tu_w"
    /\ IF weak = 0
       THEN /\ nShared' = nShared + 1
            /\ nRead' = nRead
            /\ last' = Ret("try_upgrade", "Ok")
       ELSE /\ nRead' = nRead + 1
            /\ nShared' = nShared
            /\ last' = Ret("try_upgrade", "Err")
    /\ Goto(t, "idle")
    /\ hist' = IF hist.at = "new_grl_tu" THEN Follow("new_grl_tu", "new_grl_back")
               ELSE Follow("new_grl_drop_tu", "new_grl_drop_back")
    /\ UNCHANGED <<env, cell, lockst, nWeak, nRaw, nRawWeak, rdBorrowed>>

\* SharedReadLock::from_inner
SharedReadLock_from_inner(t) ==
    /\ ~IsLite
    /\ Idle(t) /\ nRaw >= 1
    /\ nRaw' = nRaw - 1
    /\ nRead' = nRead + 1
    /\ last' = Ret("from_inner", "Ok")
    /\ hist' = NoChain
    /\ UNCHANGED <<env, cell, lockst, nShared, nWeak, nRawWeak, rdBorrowed, pc>>

\* Mutant: try_into_inner that tolerates one other strong reference.
Mut_try_into_inner_allows_two(t) ==
    /\ ~IsLite
    /\ Idle(t) /\ RdFree >= 1
    /\ IF strong <= 2
       THEN /\ nRead' = nRead - 1
            /\ Goto(t, "tii_w")
            /\ last' = Ret("try_into_inner", "Pending")
       ELSE /\ UNCHANGED <<nRead, pc>>
            /\ last' = Ret("try_into_inner", "Err")
    /\ hist' = NoChain
    /\ UNCHANGED <<env, cell, lockst, nShared, nWeak, nRaw, nRawWeak, rdBorrowed>>

\* SharedReadLock::try_into_inner, first half of the condition.
SharedReadLock_try_into_inner_strong(t) ==
    /\ ~IsLite
    /\ Idle(t) /\ RdFree >= 1
    /\ IF strong = 1
       THEN /\ nRead' = nRead - 1
            /\ Goto(t, "tii_w")
            /\ last' = Ret("try_into_inner", "Pending")
       ELSE /\ UNCHANGED <<nRead, pc>>
            /\ last' = Ret("try_into_inner", "Err")
    /\ hist' = NoChain
    /\ UNCHANGED <<env, cell, lockst, nShared, nWeak, nRaw, nRawWeak, rdBorrowed>>

\* Mutant: try_into_inner that does not look at the weak count.
Mut_try_into_inner_skips_weak(t) ==
    /\ pc[t] = "tii_w"
    /\ nRaw' = nRaw + 1
    /\ nRead' = nRead
    /\ last' = Ret("try_into_inner", "Ok")
    /\ Goto(t, "idle")
    /\ hist' = NoChain
    /\ UNCHANGED <<env, cell, lockst, nShared, nWeak, nRawWeak, rdBorrowed>>

\* SharedReadLock::try_into_inner, second half.
SharedReadLock_try_into_inner_weak(t) ==
    /\ pc[t] = "tii_w"
    /\ IF weak = 0
       THEN /\ nRaw' = nRaw + 1
            /\ nRead' = nRead
            /\ last' = Ret("try_into_inner", "Ok")
       ELSE /\ nRead' = nRead + 1
            /\ nRaw' = nRaw
            /\ last' = Ret("try_into_inner", "Err")
    /\ Goto(t, "idle")
    /\ hist' = NoChain
    /\ UNCHANGED <<env, cell, lockst, nShared, nWeak, nRawWeak, rdBorrowed>>

\* Clone for SharedReadLock
SharedReadLock_clone(t) ==
    /\ Idle(t) /\ nRead >= 1
    /\ ArcClone
    /\ nRead' = nRead + 1
    /\ last' = Ret("clone", "Ok")
    /\ hist' = NoChain
    /\ UNCHANGED <<env, lockst, nShared, nWeak, nRaw, nRawWeak, rdBorrowed, pc>>

\* drop(SharedReadLock)
SharedReadLock_drop(t) ==
    /\ Idle(t) /\ RdFree >= 1
    /\ ArcDropStrong
    /\ nRead' = nRead - 1
    /\ last' = Ret("drop_read", "Ok")
    /\ hist' = NoChain
    /\ UNCHANGED <<env, lockst, nShared, nWeak, nRaw, nRawWeak, rdBorrowed, pc>>

\* -------------------------------------------------------------- WeakReadLock
\* Mutant: upgrade that raises the strong count without looking at it.
Mut_upgrade_ignores_dead(t) ==
    /\ Idle(t) /\ nWeak >= 1
    /\ strong < MaxStrong
    /\ strong' = strong + 1
    /\ nRead' = nRead + 1
    /\ last' = Ret("upgrade", "Some")
    /\ hist' = NoChain
    /\ UNCHANGED <<env, weak, value, lockst, nShared, nWeak, nRaw, nRawWeak,
                   rdBorrowed, pc>>

\* WeakReadLock::upgrade: Weak::upgrade raises the strong count unless it is 0,
\* in one atomic compare-and-swap.
WeakReadLock_upgrade(t) ==
    /\ Idle(t) /\ nWeak >= 1
    /\ IF strong > 0
       THEN /\ strong < MaxStrong
            /\ strong' = strong + 1
            /\ nRead' = nRead + 1
            /\ last' = Ret("upgrade", "Some")
       ELSE /\ UNCHANGED <<strong, nRead>>
            /\ last' = Ret("upgrade", "None")
    /\ hist' = NoChain
    /\ UNCHANGED <<env, weak, value, lockst, nShared, nWeak, nRaw, nRawWeak,
                   rdBorrowed, pc>>

\* Mutant: a WeakReadLock clone that clones the Arc instead of the Weak.
Mut_weak_clone_bumps_strong(t) ==
    /\ Idle(t) /\ nWeak >= 1
    /\ strong < MaxStrong
    /\ strong' = strong + 1
    /\ nWeak' = nWeak + 1
    /\ last' = Ret("clone_weak", "Ok")
    /\ hist' = NoChain
    /\ UNCHANGED <<env, weak, value, lockst, nShared, nRead, nRaw, nRawWeak,
                   rdBorrowed, pc>>

\* Clone for WeakReadLock
WeakReadLock_clone(t) ==
    /\ Idle(t) /\ nWeak >= 1
    /\ weak < MaxWeak
    /\ weak' = weak + 1
    /\ nWeak' = nWeak + 1
    /\ last' = Ret("clone_weak", "Ok")
    /\ hist' = NoChain
    /\ UNCHANGED <<env, strong, value, lockst, nShared, nRead, nRaw, nRawWeak,
                   rdBorrowed, pc>>

\* drop(WeakReadLock)
WeakReadLock_drop(t) ==
    /\ Idle(t) /\ nWeak >= 1
    /\ weak' = weak - 1
    /\ nWeak' = nWeak - 1
    /\ last' = Ret("drop_weak", "Ok")
    /\ hist' = NoChain
    /\ UNCHANGED <<env, strong, value, lockst, nShared, nRead, nRaw, nRawWeak,
                   rdBorrowed, pc>>

\* ------------------------------------------------- the raw Arc<RwLock<T>>
\* What the holder of the Arc returned by into_inner / try_into_inner can do
\* with it besides handing it back: drop it, clone it, downgrade it, and
\* upgrade or drop the Weak.
Raw_drop(t) ==
    /\ Idle(t) /\ nRaw >= 1
    /\ ArcDropStrong
    /\ nRaw' = nRaw - 1
    /\ last' = Ret("raw_drop", "Ok")
    /\ hist' = NoChain
    /\ UNCHANGED <<env, lockst, nShared, nRead, nWeak, nRawWeak, rdBorrowed, pc>>

Raw_clone(t) ==
    /\ Idle(t) /\ nRaw >= 1
    /\ ArcClone
    /\ nRaw' = nRaw + 1
    /\ last' = Ret("raw_clone", "Ok")
    /\ hist' = NoChain
    /\ UNCHANGED <<env, lockst, nShared, nRead, nWeak, nRawWeak, rdBorrowed, pc>>

Raw_downgrade(t) ==
    /\ Idle(t) /\ nRaw >= 1
    /\ weak < MaxWeak
    /\ weak' = weak + 1
    /\ nRawWeak' = nRawWeak + 1
    /\ last' = Ret("raw_downgrade", "Ok")
    /\ hist' = NoChain
    /\ UNCHANGED <<env, strong, value, lockst, nShared, nRead, nWeak, nRaw,
                   rdBorrowed, pc>>

RawWeak_upgrade(t) ==
    /\ Idle(t) /\ nRawWeak >= 1
    /\ IF strong > 0
       THEN /\ strong < MaxStrong
            /\ strong' = strong + 1
            /\ nRaw' = nRaw + 1
            /\ last' = Ret("raw_upgrade", "Some")
       ELSE /\ UNCHANGED <<strong, nRaw>>
            /\ last' = Ret("raw_upgrade", "None")
    /\ hist' = NoChain
    /\ UNCHANGED <<env, weak, value, lockst, nShared, nRead, nWeak, nRawWeak,
                   rdBorrowed, pc>>

RawWeak_drop(t) ==
    /\ Idle(t) /\ nRawWeak >= 1
    /\ weak' = weak - 1
    /\ nRawWeak' = nRawWeak - 1
    /\ last' = Ret("raw_weak_drop", "Ok")
    /\ hist' = NoChain
    /\ UNCHANGED <<env, strong, value, lockst, nShared, nRead, nWeak, nRaw,
                   rdBorrowed, pc>>

\* RwLock::write on the raw Arc: the call returns once no reader and no writer
\* holds the lock.
Raw_write(t) ==
    /\ Idle(t) /\ nRaw >= 1
    /\ ~writer /\ readers = 0
    /\ writer' = TRUE
    /\ Goto(t, "xw_held")
    /\ last' = Ret("raw_write", "Ok")
    /\ hist' = NoChain
    /\ UNCHANGED <<env, cell, readers, handles>>

\* The holder of the raw write guard stores a value.
RawWriteGuard_deref_mut(t, v) ==
    /\ pc[t] = "xw_held"
    /\ value' = <<v>>
    /\ last' = Ret("raw_store", "Ok")
    /\ hist' = NoChain
    /\ UNCHANGED <<env, strong, weak, lockst, handles, pc>>

\* drop of the raw write guard
RawWriteGuard_drop(t) ==
    /\ pc[t] = "xw_held"
    /\ writer' = FALSE
    /\ Goto(t, "idle")
    /\ last' = Ret("raw_drop_write_guard", "Ok")
    /\ hist' = NoChain
    /\ UNCHANGED <<env, cell, readers, handles>>

\* ------------------------------------------------------------------ Next
\* The handle API of the crate.
Next ==
    \E t \in Threads :
        \/ \E v \in Values : Shared_new(t, v)
        \/ Shared_unwrap(t)
        \/ Shared_lock(t)
        \/ RwLock_write(t)
        \/ \E v \in Values : SharedWriteGuard_deref_mut(t, v)
        \/ SharedWriteGuard_drop(t)
        \/ Shared_get_read_lock(t)
        \/ Shared_get(t)
        \/ Shared_get_return(t)
        \/ Shared_try_get_return(t)
        \/ Ref_drop(t)
        \/ Shared_into_inner(t)
        \/ Shared_try_from_inner_strong(t)
        \/ Shared_try_from_inner_weak(t)
        \/ Shared_drop(t)
        \/ SharedReadLock_lock(t)
        \/ RwLock_read(t)
        \/ SharedReadGuard_drop(t)
        \/ SharedReadLock_try_lock(t)
        \/ SharedReadLock_lock_owned(t)
        \/ RwLock_read_owned(t)
        \/ OwnedSharedReadGuard_drop(t)
        \/ OwnedSharedReadGuard_drop_arc(t)
        \/ Shared_lock_cancel(t)
        \/ SharedReadLock_lock_cancel(t)
        \/ SharedReadLock_lock_owned_cancel(t)
        \/ SharedReadLock_downgrade(t)
        \/ SharedReadLock_try_upgrade_strong(t)
        \/ SharedReadLock_try_upgrade_weak(t)
        \/ SharedReadLock_from_inner(t)
        \/ SharedReadLock_try_into_inner_strong(t)
        \/ SharedReadLock_try_into_inner_weak(t)
        \/ SharedReadLock_clone(t)
        \/ SharedReadLock_drop(t)
        \/ WeakReadLock_upgrade(t)
        \/ WeakReadLock_clone(t)
        \/ WeakReadLock_drop(t)
        \/ Raw_drop(t)

\* The handle API together with the std operations on a raw Arc and Weak.
NextRaw ==
    \/ Next
    \/ \E t \in Threads :
        \/ Raw_clone(t)
        \/ Raw_downgrade(t)
        \/ RawWeak_upgrade(t)
        \/ RawWeak_drop(t)
        \/ Raw_write(t)
        \/ \E v \in Values : RawWriteGuard_deref_mut(t, v)
        \/ RawWriteGuard_drop(t)

\* The handle API with guard holders that may panic.
NextPoison ==
    \/ Next
    \/ \E t \in Threads : SharedWriteGuard_panic(t)

\* The handle API with write guards that may be forgotten.
NextLeak ==
    \/ Next
    \/ \E t \in Threads : SharedWriteGuard_forget(t)

Spec == Init /\ [][Next]_vars

SpecRaw == Init /\ [][NextRaw]_vars

SpecPoison == Init /\ [][NextPoison]_vars

SpecLeak == Init /\ [][NextLeak]_vars

\* ----------------------------------------------- the test parallel_read_write
\* The main thread is the writer, the spawned thread (or task) the reader.
TestStart == 1
TestRounds == 10
TestLimit == 1024

TestWriter == CHOOSE t \in Threads : \A u \in Threads : t <= u
TestReader == CHOOSE t \in Threads \ {TestWriter} :
                  \A u \in Threads \ {TestWriter} : t <= u

\* After `Shared::new(1)` and `Shared::get_read_lock(&shared)`, with the read
\* handle moved into the reader.
InitTest ==
    /\ backend \in Backends
    /\ strong = 2
    /\ weak = 0
    /\ value = <<TestStart>>
    /\ readers = 0
    /\ writer = FALSE
    /\ nShared = 1
    /\ nRead = 1
    /\ nWeak = 0
    /\ nRaw = 0
    /\ nRawWeak = 0
    /\ rdBorrowed = 0
    /\ pc = [t \in Threads |-> "idle"]
    /\ last = Ret("get_read_lock", "Ok")
    /\ hist = Chain("new_grl", <<TestStart>>)
    /\ poisoned = FALSE
    /\ test = [phase |-> "get", round |-> 0, tmp |-> 0, reader |-> "loop", seen |-> 0]

\* `for _ in 0..10 { let value: i32 = *shared; ...`: Deref is Shared::get.
Test_get ==
    /\ test.phase = "get" /\ test.round < TestRounds
    /\ Shared_get(TestWriter)

Test_get_return == Shared_get_return(TestWriter)

\* The value is copied out of the reference, which is not used again.
Test_copy ==
    /\ pc[TestWriter] = "g_ref"
    /\ test' = [test EXCEPT !.tmp = value[1], !.phase = "lock"]
    /\ Goto(TestWriter, "idle")
    /\ last' = Ret("drop_ref", "Ok")
    /\ hist' = NoChain
    /\ UNCHANGED <<backend, poisoned, cell, lockst, handles>>

\* `*Shared::lock(&mut shared) += value;`
Test_lock ==
    /\ test.phase = "lock"
    /\ Shared_lock(TestWriter)

Test_write == RwLock_write(TestWriter)

\* The sum is stored through the guard, which is dropped at the end of the
\* statement; the round is over.
Test_add ==
    /\ pc[TestWriter] = "w_held"
    /\ value' = <<value[1] + test.tmp>>
    /\ writer' = FALSE
    /\ test' = [test EXCEPT !.round = @ + 1, !.phase = "get"]
    /\ Goto(TestWriter, "idle")
    /\ last' = Ret("drop_write_guard", "Ok")
    /\ hist' = NoChain
    /\ UNCHANGED <<backend, poisoned, strong, weak, readers, handles>>

\* The loop of the writer is over.
Test_writer_done ==
    /\ test.phase = "get" /\ test.round = TestRounds
    /\ test' = [test EXCEPT !.phase = "done"]
    /\ UNCHANGED <<backend, poisoned, cell, lockst, handles, pc, last, hist>>

\* `while *readlock.lock() < 1024 {}`
Test_reader_lock ==
    /\ test.reader = "loop"
    /\ SharedReadLock_lock(TestReader)

Test_reader_read == RwLock_read(TestReader)

\* The condition is evaluated through the guard, which is dropped at the end
\* of the condition.
Test_check ==
    /\ pc[TestReader] = "r_held"
    /\ readers' = readers - 1
    /\ EndRdBorrow(TestReader)
    /\ test' = [test EXCEPT !.seen = value[1],
                            !.reader = IF value[1] < TestLimit THEN "loop" ELSE "exit"]
    /\ Goto(TestReader, "idle")
    /\ last' = Ret("drop_read_guard", "Ok")
    /\ hist' = NoChain
    /\ UNCHANGED <<backend, poisoned, cell, writer, nShared, nRead, nWeak, nRaw, nRawWeak>>

\* The closure of the reader returns: the read handle it owns is dropped.
Test_reader_exit ==
    /\ test.reader = "exit"
    /\ ArcDropStrong
    /\ nRead' = nRead - 1
    /\ test' = [test EXCEPT !.reader = "done"]
    /\ last' = Ret("drop_read", "Ok")
    /\ hist' = NoChain
    /\ UNCHANGED <<backend, poisoned, lockst, nShared, nWeak, nRaw, nRawWeak, rdBorrowed, pc>>

TestWriterNext ==
    \/ Test_get
    \/ Test_get_return
    \/ Test_copy
    \/ Test_lock
    \/ Test_write
    \/ Test_add
    \/ Test_writer_done

TestReaderNext ==
    \/ Test_reader_lock
    \/ Test_reader_read
    \/ Test_check
    \/ Test_reader_exit

NextTest == TestWriterNext \/ TestReaderNext

\* Both parties are scheduled fairly, and a writer that waits for the lock is
\* not passed over for ever by a reader that takes it again and again: the
\* tokio lock queues its waiters first come first served, and the test
\* asserts that the reader has finished.
SpecTest ==
    /\ InitTest
    /\ [][NextTest]_vars
    /\ WF_vars(TestWriterNext)
    /\ WF_vars(TestReaderNext)
    /\ SF_vars(Test_write)

\* ------------------------------------------------------------------ census
\* The handles that exist, counted by what they are rather than by the Arc's
\* counters.  A handle moved into a running call still exists.
ReadInCall == {t \in Threads : pc[t] \in {"tu_w", "tii_w"}}
RawInCall == {t \in Threads : pc[t] = "tfi_w"}
OwnedGuardArcs == {t \in Threads : pc[t] \in {"ro_wait", "ro_held", "ro_arc"}}
WriteGuards == {t \in Threads : pc[t] = "w_held"}
ReadGuards == {t \in Threads : pc[t] \in {"r_held", "ro_held", "g_held"}}
RawWriteGuards == {t \in Threads : pc[t] = "xw_held"}
RefsLive == {t \in Threads : pc[t] = "g_ref"}

SharedHandles == nShared
ReadHandles == nRead + Cardinality(ReadInCall)
RawArcs == nRaw + Cardinality(RawInCall)
StrongRefs == SharedHandles + ReadHandles + RawArcs + Cardinality(OwnedGuardArcs)
WeakRefs == nWeak + nRawWeak

Returned(op, res) == last.op = op /\ last.res = res

\* Shared::read_count and Shared::weak_count (readlock-tokio): what a call
\* would return in the current state.
Shared_read_count == strong - 1
Shared_weak_count == weak

\* No call is in progress: every thread is between calls, possibly holding a
\* guard or a reference.
Quiescent == \A t \in Threads : pc[t] \in {"idle", "w_held", "r_held", "ro_held", "g_ref"}

\* ------------------------------------------------------------------ claims

\* C1: at most one Shared exists for the cell in every reachable state, under
\* every interleaving of the handle operations, although the uniqueness check
\* reads the strong count and the weak count in two steps.
C1_AtMostOneShared == SharedHandles <= 1

\* C1 witness: try_upgrade has returned Ok from a check that another thread's
\* upgrade ran through (a second strong reference exists), and still only one
\* Shared exists.
C1_Witness == Returned("try_upgrade", "Ok") /\ strong = 2 /\ SharedHandles = 1

\* C2 (as claimed): Shared::unwrap returns Ok exactly when the Shared is the
\* only strong reference, whatever the number of WeakReadLocks; Ok carries the
\* stored value and ends the value's life, Err gives the Shared back and
\* changes nothing.
C2_UnwrapIffSoleStrong ==
    [][last'.op = "unwrap" =>
        /\ (last'.res = "Ok") <=> (StrongRefs = 1)
        /\ last'.res = "Ok" =>
              /\ Len(value) = 1 /\ last'.val = value
              /\ SharedHandles' = 0 /\ StrongRefs' = 0
              /\ weak' = weak /\ nWeak' = nWeak
        /\ last'.res = "Err" =>
              /\ SharedHandles' = SharedHandles
              /\ UNCHANGED <<cell, lockst, handles>>]_vars

\* C2 (amended): Shared::unwrap returns Ok exactly when the Shared is the only
\* strong reference and the lock is not poisoned, whatever the number of
\* WeakReadLocks, and Err exactly when another strong reference exists; Ok
\* carries the stored value and ends the value's life, Err gives the Shared
\* back and changes nothing.
C2_UnwrapOkIffSoleStrongUnpoisoned ==
    [][last'.op = "unwrap" =>
        /\ (last'.res = "Ok") <=> (StrongRefs = 1 /\ ~poisoned)
        /\ (last'.res = "Err") <=> (StrongRefs > 1)
        /\ last'.res = "Ok" =>
              /\ Len(value) = 1 /\ last'.val = value
              /\ SharedHandles' = 0 /\ StrongRefs' = 0
              /\ weak' = weak /\ nWeak' = nWeak
        /\ last'.res = "Err" =>
              /\ SharedHandles' = SharedHandles
              /\ UNCHANGED <<cell, lockst, handles, poisoned>>]_vars

\* C2 witness: unwrap has returned the value while a WeakReadLock is outstanding.
C2_Witness == Returned("unwrap", "Ok") /\ nWeak >= 1 /\ Len(last.val) = 1

\* C3: a rejected conversion (try_upgrade, try_into_inner, try_from_inner,
\* unwrap returning Err) leaves the strong count, the weak count, the lock
\* state and the value as they were, and the handle it was given exists
\* afterwards as the same kind of handle, back with the caller.
RejectingOps == {"try_upgrade", "try_into_inner", "try_from_inner", "unwrap"}

C3_RejectedConversionChangesNothing ==
    [][(last'.op \in RejectingOps /\ last'.res \in {"Err", "Pending"}) =>
        /\ UNCHANGED <<cell, lockst, nWeak, nRawWeak, rdBorrowed>>
        /\ SharedHandles' = SharedHandles
        /\ ReadHandles' = ReadHandles
        /\ RawArcs' = RawArcs
        /\ last'.res = "Err" =>
              /\ nRead' >= nRead /\ ReadInCall' \subseteq ReadInCall
              /\ nRaw' >= nRaw /\ RawInCall' \subseteq RawInCall
              /\ \A t \in Threads : pc[t] # pc'[t] => pc'[t] = "idle"]_vars

\* C3 witness: try_upgrade was rejected by the second half of its check, with
\* the handle it had taken back in the pool.
C3_Witness ==
    /\ Returned("try_upgrade", "Err")
    /\ strong = 1 /\ weak >= 1 /\ nRead = 1 /\ ReadInCall = {}

\* C4 (as claimed): when try_upgrade returns Ok, the upgraded handle is the
\* only strong reference and no weak reference exists.
C4_UpgradedIsSoleReference ==
    Returned("try_upgrade", "Ok") =>
        /\ strong = 1 /\ StrongRefs = 1
        /\ weak = 0 /\ WeakRefs = 0

\* C5 (as claimed): while a Shared exists, no raw Arc<RwLock<T>> of the cell
\* is alive.
C5_NoRawArcBesideShared == SharedHandles >= 1 => RawArcs = 0

\* C6: WeakReadLock::upgrade returns Some exactly when a strong reference to
\* the cell is alive at the time of the attempt, and None otherwise; Some adds
\* one SharedReadLock, None changes nothing; and the call never waits for the
\* lock: it can be made in every state in which a WeakReadLock exists,
\* whoever holds or awaits a guard.
C6_UpgradeIffStrongAlive ==
    /\ [][last'.op = "upgrade" =>
            /\ (last'.res = "Some") <=> (StrongRefs >= 1)
            /\ last'.res = "Some" =>
                  /\ nRead' = nRead + 1 /\ StrongRefs' = StrongRefs + 1
                  /\ strong' = strong + 1
                  /\ UNCHANGED <<weak, value, lockst, nWeak, nShared, pc>>
            /\ last'.res = "None" => UNCHANGED <<cell, lockst, handles, pc>>]_vars
    /\ [](\A t \in Threads :
            (Idle(t) /\ nWeak >= 1 /\ strong < MaxStrong) =>
                ENABLED WeakReadLock_upgrade(t))

\* C6 witness: upgrade has returned Some while a write guard is held.
C6_Witness == Returned("upgrade", "Some") /\ WriteGuards # {}

\* C7: Shared::new(v), Shared::into_inner, Shared::try_from_inner on the
\* returned Arc, with nothing else done to the cell in between, returns Ok:
\* one Shared, no raw Arc left, strong count 1, weak count 0, value v.
C7_IntoInnerTryFromInnerRoundTrip ==
    hist.at = "new_inner_back" =>
        /\ Returned("try_from_inner", "Ok")
        /\ SharedHandles = 1 /\ RawArcs = 0 /\ StrongRefs = 1
        /\ strong = 1 /\ weak = 0
        /\ value = hist.v /\ Len(value) = 1

\* C7 witness: the round trip has been made.
C7_Witness == hist.at = "new_inner_back" /\ \A t \in Threads : Idle(t)

\* C8 (as claimed): get_read_lock on a new Shared followed at once by
\* try_upgrade on the resulting read handle returns Ok.
C8_GetReadLockTryUpgradeOk ==
    hist.at = "new_grl_back" => Returned("try_upgrade", "Ok")

\* C8 (amended): get_read_lock on a new Shared followed at once by
\* try_upgrade on the resulting read handle returns Err with that handle, the
\* original Shared being alive; once the original Shared has been dropped,
\* try_upgrade on the read handle returns Ok with a Shared over the same cell
\* and value.
C8_TryUpgradeAfterSharedDropped ==
    /\ hist.at = "new_grl_back" =>
          /\ Returned("try_upgrade", "Err")
          /\ SharedHandles = 1 /\ nRead = 1 /\ strong = 2 /\ weak = 0
          /\ value = hist.v
    /\ hist.at = "new_grl_drop_back" =>
          /\ Returned("try_upgrade", "Ok")
          /\ SharedHandles = 1 /\ ReadHandles = 0 /\ StrongRefs = 1
          /\ strong = 1 /\ weak = 0
          /\ value = hist.v /\ Len(value) = 1

\* C8 witness: the read handle was upgraded after the original Shared was dropped.
C8_Witness == hist.at = "new_grl_drop_back" /\ SharedHandles = 1

\* C9: a live write guard coexists with no read guard and no other write
\* guard; the lock's own state agrees with the guards that are live.
C9_GuardMutualExclusion ==
    /\ Cardinality(WriteGuards) <= 1
    /\ WriteGuards # {} => ReadGuards = {}
    /\ writer <=> WriteGuards # {}
    /\ readers = Cardinality(ReadGuards)

\* C9 witness: a write guard is live and a reader is kept waiting.
C9_Witness == WriteGuards # {} /\ \E t \in Threads : pc[t] \in {"r_wait", "ro_wait"}

\* Several read guards live at once.
C9_ReadersShare == Cardinality(ReadGuards) >= 2

\* C10: a Shared::lock call pending while a read guard is held does not return
\* with the write guard in that state, and once no read guard is held it
\* returns with the write guard, unless a reader is granted the lock first (or,
\* in readlock-tokio, the caller drops the pending future).
C10_WriteWaitsForReaders ==
    /\ [][\A t \in Threads :
            (pc[t] = "w_wait" /\ ReadGuards # {}) => pc'[t] # "w_held"]_vars
    /\ \A t \in Threads :
            (pc[t] = "w_wait" /\ ReadGuards = {})
                ~> \/ pc[t] = "w_held"
                   \/ ReadGuards # {}
                   \/ IsTokio /\ Returned("lock", "Cancelled")

\* C10 witness: Shared::lock is pending while a sibling's read guard is held.
C10_Witness == \E t, u \in Threads : pc[t] = "w_wait" /\ pc[u] = "r_held"

C12_NoWriteWhileRefLive ==
    /\ (last.op \in {"get", "try_get"} /\ last.res \in {"Ok", "Err"}) => last.val = value
    /\ RefsLive # {} => ~writer /\ WriteGuards = {} /\ RawWriteGuards = {}

\* C13 (as claimed): in every state in which Shared::get can be called, the
\* lock is not write-held and no write acquisition is pending, so that get
\* neither waits nor (readlock-tokio) runs into its `expect`.
C13_GetNeverWaitsNorFails ==
    /\ \A t \in Threads :
          (Idle(t) /\ SharedFree) => ~writer /\ At("w_wait") = {}
    /\ IsTokio => ~Returned("get", "Panic")

\* C14: in the std builds try_get never panics: it returns Ok with a
\* reference to the stored value when the lock is not poisoned and Err with a
\* reference to the same stored value when it is; get returns the reference
\* exactly when the lock is not poisoned and panics exactly when it is.
C14_TryGetNeverPanics ==
    [][(~IsTokio /\ last'.op \in {"get", "try_get"} /\ last'.res # "Pending") =>
        /\ last'.op = "try_get" =>
              /\ last'.res = (IF poisoned THEN "Err" ELSE "Ok")
              /\ Len(value) = 1 /\ last'.val = value
              /\ RefsLive' # RefsLive
        /\ last'.op = "get" =>
              /\ (last'.res = "Ok") <=> ~poisoned
              /\ (last'.res = "Panic") <=> poisoned
              /\ last'.res = "Ok" => last'.val = value /\ RefsLive' # RefsLive
              /\ last'.res = "Panic" => RefsLive' = RefsLive
        /\ UNCHANGED <<cell, writer, handles, poisoned>>]_vars

\* C14 witness: try_get has returned Err with a reference on a poisoned lock.
C14_Witness == Returned("try_get", "Err") /\ poisoned /\ RefsLive # {} /\ last.val = value

\* The acquisitions of C15 that have come to an end.
LockReturns == {"Ok", "Err", "Panic"}

\* C15 (as claimed): on a poisoned lock SharedReadLock::lock and Shared::lock
\* return a failure that carries the guard, which the caller then holds.
C15_PoisonedLockHandsOutGuard ==
    [][(poisoned /\ last'.op \in {"lock", "read_lock"} /\ last'.res \in LockReturns) =>
        /\ last'.res = "Err"
        /\ \E t \in Threads : pc'[t] # pc[t] /\ pc'[t] \in {"w_held", "r_held"}]_vars

\* C15 (amended): a write-guard holder that panics poisons the std lock, the
\* lock stays poisoned as long as the cell lives, and on a poisoned lock
\* SharedReadLock::lock and Shared::lock panic: the caller gets no guard and
\* the lock is left as it was.  On a lock that is not poisoned they return
\* the guard.
C15_PoisonedLockPanics ==
    /\ [][(last'.op = "panic_write_guard" /\ ~IsTokio) => poisoned']_vars
    /\ [][(poisoned /\ last'.op # "new") => poisoned']_vars
    /\ [][(last'.op \in {"lock", "read_lock"} /\ last'.res \in LockReturns) =>
            /\ (last'.res = "Panic") <=> poisoned
            /\ (last'.res = "Ok") <=> ~poisoned
            /\ last'.res = "Panic" =>
                  /\ UNCHANGED <<cell, lockst>>
                  /\ \A t \in Threads : pc'[t] # pc[t] => pc'[t] = "idle"
            /\ last'.res = "Ok" =>
                  \E t \in Threads : pc'[t] # pc[t] /\ pc'[t] \in {"w_held", "r_held"}]_vars

\* C15 witness: SharedReadLock::lock has panicked on a poisoned lock.
C15_Witness == Returned("read_lock", "Panic") /\ poisoned /\ ReadGuards = {}

C16_ErrOnPoisoned == Returned("unwrap", "Err") /\ poisoned

\* C17 (as claimed): right after Shared::new both counts are 0, and whenever
\* no call is in progress Shared::read_count is the number of SharedReadLocks
\* of the cell and Shared::weak_count the number of its WeakReadLocks.
C17_CountsMatchHandles ==
    /\ Returned("new", "Ok") => Shared_read_count = 0 /\ Shared_weak_count = 0
    /\ (backend = "tokio" /\ SharedHandles = 1 /\ Quiescent) =>
          /\ Shared_read_count = ReadHandles
          /\ Shared_weak_count = nWeak

\* C18: SharedReadLock::try_lock never waits: it can be called and returns at
\* once in every state in which a SharedReadLock exists; it returns None
\* whenever the lock is write-held, and changes nothing then; when it returns
\* Some the lock is not write-held, the caller holds one more read hold, and
\* no write guard is live beside it.
C18_TryLockNeverWaits ==
    /\ [][last'.op = "try_lock" =>
            /\ last'.res \in {"Some", "None"}
            /\ writer => last'.res = "None"
            /\ last'.res = "None" => UNCHANGED <<cell, lockst, handles, pc>>
            /\ last'.res = "Some" =>
                  /\ ~writer /\ ~writer' /\ WriteGuards' = {}
                  /\ readers' = readers + 1
                  /\ \E t \in Threads :
                        /\ pc[t] = "idle" /\ pc'[t] = "r_held"
                        /\ \A u \in Threads \ {t} : pc'[u] = pc[u]]_vars
    /\ [](\A t \in Threads :
            (backend = "tokio_lite" /\ Idle(t) /\ nRead >= 1) =>
                ENABLED SharedReadLock_try_lock(t))

\* C18 witness: try_lock has returned None under a live write guard.
C18_Witness == Returned("try_lock", "None") /\ WriteGuards # {} /\ writer

\* try_lock has returned a guard beside the read guard of another thread.
C18_SomeBesideReader == Returned("try_lock", "Some") /\ readers = 2

\* The steps in which a guard is dropped.
ReadGuardDrops == {"drop_read_guard", "drop_owned_guard", "get", "try_get"}
WriteGuardDrops == {"drop_write_guard", "panic_write_guard"}

\* C19: the read holds on the lock are as many as the live read guards, and
\* the lock is write-held exactly when one write guard is live; a hold is
\* released only by the drop of a guard, which releases one hold, that of the
\* guard dropped; while a guard stays live its hold stays.
C19_GuardsReleaseOnce ==
    /\ [](/\ readers = Cardinality(ReadGuards)
          /\ Cardinality(WriteGuards) <= 1
          /\ writer <=> Cardinality(WriteGuards) = 1)
    /\ [][readers' < readers =>
            /\ readers' = readers - 1
            /\ last'.op \in ReadGuardDrops
            /\ \E t \in ReadGuards : ReadGuards' = ReadGuards \ {t}
            /\ UNCHANGED writer]_vars
    /\ [][(writer /\ ~writer') =>
            /\ last'.op \in WriteGuardDrops
            /\ WriteGuards' = {} /\ ReadGuards' = ReadGuards
            /\ UNCHANGED readers]_vars
    /\ [][/\ ReadGuards \subseteq ReadGuards' => readers' >= readers
          /\ (WriteGuards # {} /\ WriteGuards' = WriteGuards) => writer']_vars

\* C19 witness: one of two read guards has been dropped and the hold of the
\* other is still there.
C19_Witness ==
    /\ Returned("drop_read_guard", "Ok")
    /\ readers = 1 /\ Cardinality(ReadGuards) = 1

\* C20: the value is gone as soon as no strong reference is left, whatever
\* the number of WeakReadLocks, and every handle that is not weak refers to a
\* live value; once the strong count is 0 with WeakReadLocks outstanding it
\* stays 0, and every upgrade from then on returns None and makes no handle;
\* an upgrade that returns Some found the value alive and leaves it alive.
C20_WeakDoesNotKeepAlive ==
    /\ [](/\ (strong = 0) <=> (value = <<>>)
          /\ StrongRefs = strong
          /\ StrongRefs >= 1 => Len(value) = 1)
    /\ [][(strong = 1 /\ strong' = 0) => (value' = <<>> /\ weak' = weak)]_vars
    /\ [][(strong = 0 /\ nWeak >= 1) => (strong' = 0 /\ value' = <<>>)]_vars
    /\ [][last'.op = "upgrade" =>
            /\ strong = 0 => (last'.res = "None" /\ UNCHANGED <<cell, handles>>)
            /\ last'.res = "Some" =>
                  /\ strong >= 1 /\ Len(value) = 1
                  /\ value' = value /\ strong' = strong + 1]_vars

\* C20 witness: upgrade has returned None on a cell whose value is gone while a
\* WeakReadLock is still there.
C20_Witness ==
    /\ Returned("upgrade", "None")
    /\ nWeak >= 1 /\ weak >= 1 /\ strong = 0 /\ value = <<>>

\* The conversions that check `strong_count == 1 && weak_count == 0`.
UniqOps == {"try_upgrade", "try_into_inner", "try_from_inner"}

\* C21: a uniqueness check is rejected by its first half exactly when the
\* strong count is not 1; when its second half follows the first with no step
\* of another thread in between, the conversion returns Ok exactly when the
\* strong count is 1 and the weak count is 0, and after an Ok the handle it
\* returns is the only reference to the cell, strong or weak.
C21_SequentialUniquenessCheck ==
    [][last'.op \in UniqOps =>
        /\ last'.res = "Pending" => strong = 1
        /\ (last'.res = "Err" /\ pc' = pc) => strong # 1
        /\ (/\ pc' # pc /\ last'.res \in {"Ok", "Err"}
            /\ last.op = last'.op /\ last.res = "Pending"
            /\ Cardinality(ReadInCall \union RawInCall) = 1) =>
              /\ strong = 1
              /\ (last'.res = "Ok") <=> (weak = 0)
              /\ last'.res = "Ok" =>
                    /\ strong' = 1 /\ weak' = 0
                    /\ StrongRefs' = 1 /\ WeakRefs' = 0
                    /\ IF last'.op = "try_into_inner"
                       THEN RawArcs' = 1 /\ nRaw' = 1
                       ELSE SharedHandles' = 1]_vars

\* C21 witness: try_into_inner has returned Ok straight after its first half.
C21_Witness ==
    /\ Returned("try_into_inner", "Ok")
    /\ strong = 1 /\ weak = 0 /\ nRaw = 1 /\ StrongRefs = 1 /\ WeakRefs = 0

\* C22: in every state try_upgrade, try_into_inner and try_from_inner decide
\* alike: each passes its first test exactly when the strong count is 1 and
\* its second exactly when the weak count is 0, so the three succeed together
\* or fail together; from_inner and into_inner can always be called on their
\* handle, always return Ok and change neither count.
C22_ConversionsAgree ==
    ~IsLite =>
      \A t \in Threads :
        /\ (Idle(t) /\ RdFree >= 1) =>
              /\ ENABLED (SharedReadLock_try_upgrade_strong(t)
                            /\ last'.res = "Pending") <=> (strong = 1)
              /\ ENABLED (SharedReadLock_try_into_inner_strong(t)
                            /\ last'.res = "Pending") <=> (strong = 1)
              /\ ENABLED (SharedReadLock_try_upgrade_strong(t)
                            /\ last'.res = "Err") <=> (strong # 1)
              /\ ENABLED (SharedReadLock_try_into_inner_strong(t)
                            /\ last'.res = "Err") <=> (strong # 1)
        /\ (Idle(t) /\ nRaw >= 1) =>
              /\ ENABLED (Shared_try_from_inner_strong(t)
                            /\ last'.res = "Pending") <=> (strong = 1)
              /\ ENABLED (Shared_try_from_inner_strong(t)
                            /\ last'.res = "Err") <=> (strong # 1)
              /\ ENABLED (SharedReadLock_from_inner(t) /\ last'.res = "Ok"
                            /\ strong' = strong /\ weak' = weak)
              /\ ~ENABLED (SharedReadLock_from_inner(t)
                            /\ ~(last'.res = "Ok" /\ strong' = strong
                                  /\ weak' = weak))
        /\ pc[t] = "tu_w" =>
              /\ ENABLED (SharedReadLock_try_upgrade_weak(t)
                            /\ last'.res = "Ok") <=> (weak = 0)
              /\ ENABLED (SharedReadLock_try_upgrade_weak(t)
                            /\ last'.res = "Err") <=> (weak # 0)
        /\ pc[t] = "tii_w" =>
              /\ ENABLED (SharedReadLock_try_into_inner_weak(t)
                            /\ last'.res = "Ok") <=> (weak = 0)
              /\ ENABLED (SharedReadLock_try_into_inner_weak(t)
                            /\ last'.res = "Err") <=> (weak # 0)
        /\ pc[t] = "tfi_w" =>
              /\ ENABLED (Shared_try_from_inner_weak(t)
                            /\ last'.res = "Ok") <=> (weak = 0)
              /\ ENABLED (Shared_try_from_inner_weak(t)
                            /\ last'.res = "Err") <=> (weak # 0)
        /\ (Idle(t) /\ SharedUnborrowed) =>
              /\ ENABLED (Shared_into_inner(t) /\ last'.res = "Ok"
                            /\ strong' = strong /\ weak' = weak)
              /\ ~ENABLED (Shared_into_inner(t)
                            /\ ~(last'.res = "Ok" /\ strong' = strong
                                  /\ weak' = weak))

\* C22 witness: from_inner has just turned the only Arc into a SharedReadLock,
\* on which try_upgrade and try_into_inner both pass their first test.
C22_Witness ==
    /\ Returned("from_inner", "Ok")
    /\ strong = 1 /\ weak = 0 /\ nRead = 1 /\ rdBorrowed = 0
    /\ \E t \in Threads :
          /\ ENABLED (SharedReadLock_try_upgrade_strong(t) /\ last'.res = "Pending")
          /\ ENABLED (SharedReadLock_try_into_inner_strong(t) /\ last'.res = "Pending")

\* C23: a WeakReadLock clone raises the weak count by one from a count that
\* was not zero, and leaves the strong count, the lock, the poison flag, the
\* value and every call in progress as they were; what unwrap and the three
\* uniqueness checks would return is the same after the clone as before it.
C23_WeakCloneChangesNoOutcome ==
    [][last'.op = "clone_weak" =>
        /\ UNCHANGED <<strong, value, readers, writer, poisoned, pc>>
        /\ UNCHANGED <<nShared, nRead, nRaw, nRawWeak, rdBorrowed>>
        /\ weak >= 1 /\ weak' = weak + 1 /\ nWeak' = nWeak + 1
        /\ (strong = 1 /\ weak = 0) <=> (strong' = 1 /\ weak' = 0)
        /\ (weak = 0) <=> (weak' = 0)
        /\ \A t \in Threads : \A r \in {"Ok", "Err", "Panic", "Pending"} :
              /\ (ENABLED (Shared_unwrap(t) /\ last'.res = r))
                   <=> (ENABLED (Shared_unwrap(t) /\ last'.res = r))'
              /\ (ENABLED (SharedReadLock_try_upgrade_strong(t) /\ last'.res = r))
                   <=> (ENABLED (SharedReadLock_try_upgrade_strong(t) /\ last'.res = r))'
              /\ (ENABLED (SharedReadLock_try_upgrade_weak(t) /\ last'.res = r))
                   <=> (ENABLED (SharedReadLock_try_upgrade_weak(t) /\ last'.res = r))'
              /\ (ENABLED (SharedReadLock_try_into_inner_strong(t) /\ last'.res = r))
                   <=> (ENABLED (SharedReadLock_try_into_inner_strong(t) /\ last'.res = r))'
              /\ (ENABLED (SharedReadLock_try_into_inner_weak(t) /\ last'.res = r))
                   <=> (ENABLED (SharedReadLock_try_into_inner_weak(t) /\ last'.res = r))'
              /\ (ENABLED (Shared_try_from_inner_strong(t) /\ last'.res = r))
                   <=> (ENABLED (Shared_try_from_inner_strong(t) /\ last'.res = r))'
              /\ (ENABLED (Shared_try_from_inner_weak(t) /\ last'.res = r))
                   <=> (ENABLED (Shared_try_from_inner_weak(t) /\ last'.res = r))'
      ]_vars

\* C23 witness: a WeakReadLock was cloned while the Shared was the only strong
\* reference, so that unwrap still returns the value.
C23_Witness ==
    /\ Returned("clone_weak", "Ok")
    /\ weak = 2 /\ nWeak = 2 /\ strong = 1 /\ nShared = 1
    /\ \E t \in Threads : ENABLED (Shared_unwrap(t) /\ last'.res = "Ok")

\* C24: while an OwnedSharedReadGuard is live the cell is alive with the
\* guard's read hold on the lock and no writer, whatever handles are left, and
\* read_count of a Shared beside it is at least 1; unwrap and try_upgrade
\* that return while the guard is live return Err; the drop of the guard
\* releases the read hold and then the strong reference, nothing else.
C24_OwnedGuardCountsAsStrong ==
    [][/\ (At("ro_held") # {}) =>
            /\ strong >= 1 /\ Len(value) = 1
            /\ readers >= Cardinality(At("ro_held")) /\ ~writer
            /\ strong >= Cardinality(OwnedGuardArcs) + nShared
            /\ nShared >= 1 => Shared_read_count >= 1
       /\ (/\ last'.op \in {"unwrap", "try_upgrade"}
           /\ last'.res \in {"Ok", "Panic"}
           /\ \E t \in Threads : pc[t] = "ro_held" /\ pc'[t] = "ro_held") => FALSE
       /\ (last'.op = "drop_owned_guard" /\ last'.res = "Pending") =>
            readers' = readers - 1 /\ UNCHANGED <<cell, writer>>
       /\ (last'.op = "drop_owned_guard" /\ last'.res = "Ok") =>
            strong' = strong - 1 /\ UNCHANGED <<weak, lockst>>
      ]_vars

\* C25: whatever the other threads do with their WeakReadLocks, unwrap takes
\* the value only in a step that finds the Shared the one strong reference and
\* leaves none, and returns Err exactly when the strong count is not 1; from
\* then on the strong count of the cell stays 0 and every upgrade returns
\* None: upgrade returns Some only when it finds a strong count above 0.
C25_UnwrapDecidesAtomically ==
    [][/\ (last'.op = "unwrap" /\ last'.res \in {"Ok", "Panic"}) =>
            /\ strong = 1 /\ StrongRefs = 1 /\ nShared = 1
            /\ strong' = 0 /\ StrongRefs' = 0 /\ value' = <<>>
            /\ UNCHANGED <<weak, nWeak>>
            /\ \A t \in Threads :
                  ~(ENABLED (WeakReadLock_upgrade(t) /\ last'.res = "Some"))'
       /\ (last'.op = "unwrap" /\ last'.res = "Err") =>
            strong # 1 /\ StrongRefs >= 2 /\ UNCHANGED <<strong, value, nShared>>
       /\ (strong = 0 /\ last'.op # "new") => strong' = 0 /\ StrongRefs' = 0
       /\ last'.op = "upgrade" =>
            /\ (last'.res = "Some") <=> (strong >= 1)
            /\ (last'.res = "None") <=> (strong = 0)
      ]_vars

\* C25 witness: unwrap has returned the value while a WeakReadLock is
\* outstanding, whose upgrade can only return None.
C25_Witness ==
    /\ Returned("unwrap", "Ok")
    /\ strong = 0 /\ StrongRefs = 0 /\ weak >= 1 /\ nWeak >= 1
    /\ \E t \in Threads :
          /\ ENABLED (WeakReadLock_upgrade(t) /\ last'.res = "None")
          /\ ~ENABLED (WeakReadLock_upgrade(t) /\ last'.res = "Some")

\* C26 (as claimed): a call of get or try_get takes one read hold and gives
\* it back when it returns, with the reference, the Err or the panic, so that
\* the read holds on the lock are those of the live read guards; a
\* Shared::lock pending with no guard live is granted the write guard in the
\* next step it takes.
C26_GetLeavesLockGranted ==
    [][/\ (last'.op \in {"get", "try_get"} /\ last'.res = "Pending") =>
            readers' = readers + 1 /\ UNCHANGED <<cell, writer, handles, poisoned>>
       /\ (/\ last'.op \in {"get", "try_get"}
           /\ last'.res \in {"Ok", "Err", "Panic"}
           /\ \E t \in Threads : pc[t] = "g_held" /\ pc'[t] # "g_held") =>
            readers' = readers - 1 /\ UNCHANGED <<cell, writer, handles, poisoned>>
       /\ (readers = Cardinality(ReadGuards))'
       /\ (WriteGuards = {} => ~writer)'
       /\ \A t \in Threads :
            (pc[t] = "w_wait" /\ ReadGuards = {} /\ WriteGuards = {})' =>
              /\ (ENABLED (RwLock_write(t) /\ last'.res = "Ok"))'
              /\ ~(ENABLED (RwLock_write(t) /\ last'.res # "Ok"))'
      ]_vars

\* C26 (amended): a call of get or try_get takes one read hold and gives it
\* back when it returns, with the reference, the Err or the panic, so that the
\* read holds on the lock are those of the live read guards; a Shared::lock
\* pending with no guard live is not kept waiting: its next step returns the
\* write guard, or panics when the lock is poisoned.
C26_GetLeavesNoHold ==
    [][/\ (last'.op \in {"get", "try_get"} /\ last'.res = "Pending") =>
            readers' = readers + 1 /\ UNCHANGED <<cell, writer, handles, poisoned>>
       /\ (/\ last'.op \in {"get", "try_get"}
           /\ last'.res \in {"Ok", "Err", "Panic"}
           /\ \E t \in Threads : pc[t] = "g_held" /\ pc'[t] # "g_held") =>
            readers' = readers - 1 /\ UNCHANGED <<cell, writer, handles, poisoned>>
       /\ (readers = Cardinality(ReadGuards))'
       /\ (WriteGuards = {} => ~writer)'
       /\ \A t \in Threads :
            (pc[t] = "w_wait" /\ ReadGuards = {} /\ WriteGuards = {})' =>
              /\ (ENABLED RwLock_write(t))'
              /\ (ENABLED (RwLock_write(t) /\ last'.res = "Ok"))' <=> ~poisoned'
              /\ (ENABLED (RwLock_write(t) /\ last'.res = "Panic"))' <=> poisoned'
      ]_vars

\* C26 witness: get has panicked on a poisoned lock and left no read hold; the
\* Shared can be locked next.
C26_Witness ==
    /\ Returned("get", "Panic") /\ poisoned
    /\ readers = 0 /\ ~writer /\ ReadGuards = {}
    /\ \E t \in Threads : ENABLED Shared_lock(t)

\* The threads whose call of Shared::lock, SharedReadLock::lock or lock_owned
\* has not returned yet.
PendingLocks == {t \in Threads : pc[t] \in {"w_wait", "r_wait", "ro_wait"}}

\* C27: whenever a lock call is pending, a pending lock call can return or a
\* live guard can be dropped; a pending call that cannot return is waiting
\* for a guard held by another thread, whose drop is enabled.
C27_NoDeadlock ==
    /\ PendingLocks # {} =>
          \E u \in Threads :
              \/ ENABLED RwLock_write(u)
              \/ ENABLED RwLock_read(u)
              \/ ENABLED RwLock_read_owned(u)
              \/ ENABLED SharedWriteGuard_drop(u)
              \/ ENABLED SharedReadGuard_drop(u)
              \/ ENABLED OwnedSharedReadGuard_drop(u)
              \/ ENABLED Shared_get_return(u)
    /\ \A t \in Threads :
          /\ (pc[t] = "w_wait" /\ ~ENABLED RwLock_write(t)) =>
                \E u \in Threads \ {t} :
                    \/ ENABLED SharedReadGuard_drop(u)
                    \/ ENABLED OwnedSharedReadGuard_drop(u)
          /\ (pc[t] = "r_wait" /\ ~ENABLED RwLock_read(t)) =>
                \E u \in Threads \ {t} : ENABLED SharedWriteGuard_drop(u)
          /\ (pc[t] = "ro_wait" /\ ~ENABLED RwLock_read_owned(t)) =>
                \E u \in Threads \ {t} : ENABLED SharedWriteGuard_drop(u)

\* C27 witness: a lock_owned call is held up by the write guard of another
\* thread, which can be dropped.
C27_Witness ==
    \E t, u \in Threads :
        /\ pc[t] = "ro_wait" /\ ~ENABLED RwLock_read_owned(t)
        /\ pc[u] = "w_held" /\ ENABLED SharedWriteGuard_drop(u)

\* A thread waiting in RwLock::write is woken once the lock stays free.
SpecFair == Spec /\ \A t \in Threads : WF_vars(RwLock_write(t))
====
